---------------------------- MODULE Spec2Model ----------------------------
(***************************************************************************)
(* Tableau simplex of src/p16140.ipynb: simplexTableau (one iteration:     *)
(* entering column, leaving row, optimal / unbounded), pivoting            *)
(* (Gauss-Jordan step) and simplexAlgorithmTableau (the driver loop).      *)
(*                                                                         *)
(* Numbers are exact rationals [num, den] in lowest terms with den > 0.    *)
(* den = 0 encodes the IEEE specials the code can produce or use:          *)
(* 1/0 = +inf (np.inf), -1/0 = -inf, 0/0 = NaN.  Arithmetic is exact: the  *)
(* rounding of 64-bit floats is not modelled, so a property stated here    *)
(* with = or >= 0 is the exact-arithmetic form of one that the float run   *)
(* meets up to rounding.                                                   *)
(*                                                                         *)
(* Indices are the code's (Python, 0-based, negative = from the end);      *)
(* TLA+ sequences are 1-based, so element i of the code is [i + 1].        *)
(*                                                                         *)
(* Line search of src/p11150.ipynb: lineSearch (inexact line search on the *)
(* two Wolfe conditions), on one-variable objectives, with float overflow  *)
(* to inf past the largest float.                                          *)
(***************************************************************************)
EXTENDS Integers, Sequences, FiniteSets, TLC

\* ------------------------------------------------------------ bounds
MaxRows == 3      \* rows of an input tableau (objective row included)
MaxCols == 3      \* columns of an input tableau (RHS column included)
MaxVal  == 1      \* input entries are integers in -MaxVal .. MaxVal
NegIdx  == 1      \* direct pivoting calls use indices -NegIdx .. length
FloatMax == 15    \* the largest finite float of the line search's runs: the
                  \* exponent range of np.finfo(np.float64).max, scaled down
MaxIters == 7     \* iterations of the lineSearch loop that are followed

\* ------------------------------------------------------------ numbers
Abs(x) == IF x < 0 THEN -x ELSE x

Sign(x) == IF x < 0 THEN -1 ELSE IF x > 0 THEN 1 ELSE 0

RECURSIVE GCD(_, _)
GCD(a, b) == IF b = 0 THEN a ELSE GCD(b, a % b)

\* the float value n/d
Rat(n, d) ==
    IF d = 0
    THEN [num |-> Sign(n), den |-> 0]
    ELSE LET g == GCD(Abs(n), Abs(d))
             s == IF d < 0 THEN -1 ELSE 1
         IN  [num |-> (s * n) \div g, den |-> (s * d) \div g]

FromInt(k) == [num |-> k, den |-> 1]

Zero == FromInt(0)

One == FromInt(1)

\* np.inf
Inf == [num |-> 1, den |-> 0]

RMul(a, b) == Rat(a.num * b.num, a.den * b.den)

RDiv(a, b) == Rat(a.num * b.den, a.den * b.num)

RSub(a, b) == Rat(a.num * b.den - b.num * a.den, a.den * b.den)

RAbs(a) == [num |-> Abs(a.num), den |-> a.den]

\* a < b  (false whenever a NaN is involved, as in IEEE)
RLess(a, b) ==
    IF a.den = 0 /\ b.den = 0
    THEN a.num < b.num /\ a.num # 0 /\ b.num # 0
    ELSE a.num * b.den < b.num * a.den

RIsNeg(a) == RLess(a, Zero)

RIsPos(a) == RLess(Zero, a)

\* np.finfo(float).eps = 2^-52; FloatEpsRoot = 2^26, and for n >= 0, d >= 1:
\* n / d < 2^-52  <=>  n <= ((d - 1) div 2^26) div 2^26
FloatEpsRoot == 67108864

BelowEps(a) ==
    /\ a.den > 0
    /\ a.num <= ((a.den - 1) \div FloatEpsRoot) \div FloatEpsRoot

\* ------------------------------------------------------------ arrays
\* Python's None and a present value
None == <<>>

Some(x) == <<x>>

\* tableau.shape
NRows(t) == Len(t)

NCols(t) == Len(t[1])

\* a Python index into a sequence of length len: negative counts from the end
InBounds(i, len) == -len <= i /\ i < len

Wrap(i, len) == IF i < 0 THEN i + len ELSE i

\* tableau[i][j] and tableau[i, :]
RowAt(t, i) == t[Wrap(i, NRows(t)) + 1]

At(t, i, j) == RowAt(t, i)[Wrap(j, NCols(t)) + 1]


\* ------------------------------------------------------------ simplexTableau
\* reducedCost = tableau[-1, :-1]
ReducedCost(tableau) == SubSeq(RowAt(tableau, -1), 1, NCols(tableau) - 1)

\* mutant: the slice stops one column early (tableau[-1, :-2])
NegativeReducedCost_ShortSlice(tableau) ==
    [j \in 1 .. NCols(tableau) - 1 |->
        j < NCols(tableau) - 1 /\ RIsNeg(RowAt(tableau, -1)[j])]

\* negativeReducedCost = reducedCost < 0
NegativeReducedCost(tableau) ==
    [j \in 1 .. NCols(tableau) - 1 |-> RIsNeg(ReducedCost(tableau)[j])]

\* negativeReducedCost.any()
AnyTrue(b) == \E j \in 1 .. Len(b) : b[j]

\* np.argmax of a boolean array: the first True, 0 when there is none
ArgMaxBool(b) ==
    IF AnyTrue(b)
    THEN (CHOOSE j \in 1 .. Len(b) : b[j] /\ \A i \in 1 .. j - 1 : ~b[i]) - 1
    ELSE 0

\* mutant: the most negative reduced cost (Dantzig's rule)
EnteringColumn_MostNegative(tableau) ==
    (CHOOSE j \in 1 .. NCols(tableau) - 1 :
        /\ \A i \in 1 .. NCols(tableau) - 1 :
               ~RLess(ReducedCost(tableau)[i], ReducedCost(tableau)[j])
        /\ \A i \in 1 .. j - 1 :
               RLess(ReducedCost(tableau)[j], ReducedCost(tableau)[i])) - 1

\* p = np.argmax(negativeReducedCost)
EnteringColumn(tableau) == ArgMaxBool(NegativeReducedCost(tableau))

\* mutant: minusd[k] != 0 in place of minusd[k] > 0
Steps_NonZero(tableau, p) ==
    [k \in 1 .. NRows(tableau) - 1 |->
        LET xb     == At(tableau, k - 1, -1)
            minusd == At(tableau, k - 1, p)
        IN  IF minusd # Zero THEN RDiv(xb, minusd) ELSE Inf]

\* steps = [xb[k] / minusd[k] if minusd[k] > 0 else np.inf for k in range(m)]
Steps(tableau, p) ==
    [k \in 1 .. NRows(tableau) - 1 |->
        LET xb     == At(tableau, k - 1, -1)
            minusd == At(tableau, k - 1, p)
        IN  IF RIsPos(minusd) THEN RDiv(xb, minusd) ELSE Inf]

\* mutant: the scan keeps the last occurrence of the minimum
RECURSIVE ArgMinFrom_Last(_, _, _)
ArgMinFrom_Last(s, k, best) ==
    IF k > Len(s) THEN best
    ELSE ArgMinFrom_Last(s, k + 1, IF RLess(s[best], s[k]) THEN best ELSE k)

\* np.argmin scan: keeps the first occurrence of the minimum
RECURSIVE ArgMinFrom(_, _, _)
ArgMinFrom(s, k, best) ==
    IF k > Len(s) THEN best
    ELSE ArgMinFrom(s, k + 1, IF RLess(s[k], s[best]) THEN k ELSE best)

RECURSIVE ArgMaxFrom(_, _, _)
ArgMaxFrom(s, k, best) ==
    IF k > Len(s) THEN best
    ELSE ArgMaxFrom(s, k + 1, IF RLess(s[best], s[k]) THEN k ELSE best)

\* mutant: np.argmax in place of np.argmin
ArgMin_ArgMax(s) == ArgMaxFrom(s, 2, 1) - 1

\* q = np.argmin(steps), for a non-empty array
ArgMin(s) == ArgMinFrom(s, 2, 1) - 1

\* what a call returns or raises
Returned(v) == [exc |-> "none", val |-> v]

Raised(e) == [exc |-> e, val |-> None]

\* simplexTableau(tableau): returns (p, q, opt, bounded)
simplexTableau(tableau) ==
    IF ~AnyTrue(NegativeReducedCost(tableau))
    THEN Returned([p |-> None, q |-> None, opt |-> TRUE, bounded |-> TRUE])
    ELSE LET p     == EnteringColumn(tableau)
             steps == Steps(tableau, p)
         IN  IF Len(steps) = 0
             THEN Raised("ValueError")   \* np.argmin of an empty sequence
             ELSE LET q    == ArgMin(steps)
                      step == steps[q + 1]
                  IN  IF step = Inf
                      THEN Returned([p |-> None, q |-> None,
                                     opt |-> FALSE, bounded |-> FALSE])
                      ELSE Returned([p |-> Some(p), q |-> Some(q),
                                     opt |-> FALSE, bounded |-> TRUE])

\* ------------------------------------------------------------ pivoting
\* range tests of lines 117-120, on m, n = tableau.shape
RowTooLarge(tableau, q) == q >= NRows(tableau)

ColTooLarge(tableau, p) == p >= NCols(tableau)

\* mutant: the test is left out
PivotTooSmall_Never(thepivot) == FALSE

\* np.abs(thepivot) < np.finfo(float).eps
PivotTooSmall(thepivot) == BelowEps(RAbs(thepivot))

\* newtableau[q, :] = tableau[q, :] / thepivot
ScaledPivotRow(tableau, q, thepivot) ==
    [j \in 1 .. NCols(tableau) |-> RDiv(RowAt(tableau, q)[j], thepivot)]

\* mutant: the division by the pivot is left out
EliminatedRow_NoDivision(tableau, i, p, thepivotrow, thepivot) ==
    [j \in 1 .. NCols(tableau) |->
        RSub(At(tableau, i, j - 1), RMul(At(tableau, i, p), thepivotrow[j]))]

\* mutant: the multiple of the pivot row is added, not subtracted
EliminatedRow_Added(tableau, i, p, thepivotrow, thepivot) ==
    [j \in 1 .. NCols(tableau) |->
        RSub(At(tableau, i, j - 1),
             RDiv(RMul(RSub(Zero, At(tableau, i, p)), thepivotrow[j]), thepivot))]

\* tableau[i, :] - tableau[i][p] * thepivotrow / thepivot
EliminatedRow(tableau, i, p, thepivotrow, thepivot) ==
    [j \in 1 .. NCols(tableau) |->
        RSub(At(tableau, i, j - 1),
             RDiv(RMul(At(tableau, i, p), thepivotrow[j]), thepivot))]

\* mutant: the loop leaves out row 0
LoopRows_SkipFirst(tableau, q) == (1 .. NRows(tableau) - 1) \ {q}

\* set(range(m)) - {q}
LoopRows(tableau, q) == (0 .. NRows(tableau) - 1) \ {q}

\* pivoting(tableau, p, q): the pivoted tableau, or an exception
pivoting(tableau, p, q) ==
    IF RowTooLarge(tableau, q) THEN Raised("Exception")
    ELSE IF ColTooLarge(tableau, p) THEN Raised("Exception")
    ELSE IF ~InBounds(q, NRows(tableau)) \/ ~InBounds(p, NCols(tableau))
    THEN Raised("IndexError")           \* tableau[q][p]
    ELSE LET thepivot == At(tableau, q, p) IN
         IF PivotTooSmall(thepivot) THEN Raised("Exception")
         ELSE LET thepivotrow == RowAt(tableau, q) IN
              Returned([i \in 1 .. NRows(tableau) |->
                  IF (i - 1) \in LoopRows(tableau, q)
                  THEN EliminatedRow(tableau, i - 1, p, thepivotrow, thepivot)
                  ELSE ScaledPivotRow(tableau, q, thepivot)])

\* pivoting statement by statement. What could differ between two runs on the
\* same tableau: the content np.empty leaves in the new array (line 125) and
\* the order in which the loop of line 127 visits a set.

\* the orders in which a for loop may visit the members of a set
IterationOrders(S) ==
    { order \in [1 .. Cardinality(S) -> S] :
        \A a, b \in 1 .. Cardinality(S) : a # b => order[a] # order[b] }

\* what np.empty may leave in an entry it does not initialise
Uninitialised == {Zero, One}

\* newtableau = np.empty(tableau.shape), every entry holding junk
Empty(tableau, junk) ==
    [i \in 1 .. NRows(tableau) |-> [j \in 1 .. NCols(tableau) |-> junk]]

\* newtableau[i, :] = row
SetRow(newtableau, i, row) ==
    [newtableau EXCEPT ![Wrap(i, NRows(newtableau)) + 1] = row]

\* for i in set(range(m)) - {q}: newtableau[i, :] = ..., in the order visited
RECURSIVE EliminateRows(_, _, _, _, _, _)
EliminateRows(newtableau, order, tableau, p, thepivotrow, thepivot) ==
    IF order = <<>> THEN newtableau
    ELSE EliminateRows(
             SetRow(newtableau, Head(order),
                    EliminatedRow(tableau, Head(order), p, thepivotrow, thepivot)),
             Tail(order), tableau, p, thepivotrow, thepivot)

\* lines 116-129 in the order they run, newtableau starting as junk and the
\* loop visiting the rows in the given order
pivotingInOrder(tableau, p, q, junk, order) ==
    IF RowTooLarge(tableau, q) THEN Raised("Exception")
    ELSE IF ColTooLarge(tableau, p) THEN Raised("Exception")
    ELSE IF ~InBounds(q, NRows(tableau)) \/ ~InBounds(p, NCols(tableau))
    THEN Raised("IndexError")
    ELSE LET thepivot == At(tableau, q, p) IN
         IF PivotTooSmall(thepivot) THEN Raised("Exception")
         ELSE LET thepivotrow == RowAt(tableau, q)
                  newtableau  == SetRow(Empty(tableau, junk), q,
                                        ScaledPivotRow(tableau, q, thepivot))
              IN  Returned(EliminateRows(newtableau, order, tableau, p,
                                         thepivotrow, thepivot))

\* ------------------------------------------------------------ inputs
\* an integer matrix as a float array
AsTableau(ints) ==
    [i \in 1 .. Len(ints) |-> [j \in 1 .. Len(ints[i]) |-> FromInt(ints[i][j])]]

\* the integers -MaxVal .. MaxVal as floats
SmallValues == { FromInt(v) : v \in -MaxVal .. MaxVal }

\* every rows x cols array with entries in -MaxVal .. MaxVal
SmallTableaux ==
    UNION { [1 .. r -> [1 .. c -> SmallValues]] :
            <<r, c>> \in (1 .. MaxRows) \X (1 .. MaxCols) }

\* the tableaux of the notebooks
Exercise1 ==
    AsTableau(<< <<1, 2, 2, 1, 0, 0, 20>>,
                 <<2, 1, 2, 0, 1, 0, 20>>,
                 <<2, 2, 1, 0, 0, 1, 20>>,
                 <<-10, -12, -12, 0, 0, 0, 0>> >>)

Exercise2 ==
    AsTableau(<< <<1, 2, 3, 0, 1, 0, 0, 0, 3>>,
                 <<-1, 2, 6, 0, 0, 1, 0, 0, 2>>,
                 <<0, 4, 9, 0, 0, 0, 1, 0, 5>>,
                 <<0, 0, 3, 1, 0, 0, 0, 1, 1>>,
                 <<0, -8, -21, -1, 0, 0, 0, 0, -11>> >>)

Exercise3 == AsTableau(<< <<1, 0, 1>>, <<0, -2, -3>> >>)

SinglePivotExample ==
    AsTableau(<< <<1, -1, 1, 0, 2>>, <<0, 2, -1, 1, 4>>, <<0, -3, 2, 0, 4>> >>)

UnboundedExample ==
    AsTableau(<< <<1, -1, 1, 0, 2>>, <<0, -2, -1, 1, 4>>, <<0, -3, 2, 0, 4>> >>)

OptimalExample ==
    AsTableau(<< <<1, 5, 3, 7, 0, 0>>, <<0, 6, 9, 0, 1, 0>>, <<0, 0, 3, 7, 0, 1>> >>)

NotebookTableaux ==
    {Exercise1, Exercise2, Exercise3,
     SinglePivotExample, UnboundedExample, OptimalExample}

\* an array whose entries are the given integers over 2
AsHalves(ints) ==
    [i \in 1 .. Len(ints) |-> [j \in 1 .. Len(ints[i]) |-> Rat(ints[i][j], 2)]]

\* a degenerate basic feasible tableau: basis columns 3, 4, 6 (the identity),
\* RHS 0, 0, 1; all its entries and those of its pivoted tableaux are
\* multiples of 1/4, exact as floats
DegenerateTableau ==
    AsHalves(<< <<-11, -5, 18, 2, 0, 1, 0, 0>>,
                <<-3, -1, 2, 0, 2, 1, 0, 0>>,
                <<0, 0, 0, 0, 0, 2, 2, 2>>,
                <<114, 18, 48, 0, 0, -20, 0, 0>> >>)

Inputs == SmallTableaux \cup NotebookTableaux \cup {DegenerateTableau}

\* ------------------------------------------------------------ lineSearch
\* src/p11150.ipynb. Floats are the same fractions; a finite result above
\* the largest float overflows to +inf or -inf, as in IEEE.

\* np.finfo(np.float64).max
LargestFloat == FromInt(FloatMax)

NaN == [num |-> 0, den |-> 0]

\* a + b, exact
RAdd(a, b) ==
    IF a.den = 0 /\ b.den = 0
    THEN (IF a.num = b.num THEN a ELSE NaN)
    ELSE Rat(a.num * b.den + b.num * a.den, a.den * b.den)

\* the float an exact result is stored as
Overflowed(v) ==
    IF v.den # 0 /\ RLess(LargestFloat, RAbs(v))
    THEN [num |-> Sign(v.num), den |-> 0]
    ELSE v

\* float +, *, /
FAdd(a, b) == Overflowed(RAdd(a, b))

FMul(a, b) == Overflowed(RMul(a, b))

FDiv(a, b) == Overflowed(RDiv(a, b))

\* obj(x): value and gradient of the objective c3 * x^3 + c2 * x^2 + c1 * x,
\* x a 1-vector
ObjValue(obj, x) ==
    FAdd(FAdd(FMul(FromInt(obj.c3), FMul(x, FMul(x, x))),
              FMul(FromInt(obj.c2), FMul(x, x))),
         FMul(FromInt(obj.c1), x))

ObjGradient(obj, x) ==
    FAdd(FAdd(FMul(FromInt(3 * obj.c3), FMul(x, x)),
              FMul(FromInt(2 * obj.c2), x)),
         FromInt(obj.c1))

\* lines 71-80: the parameter checks that raise
BadParameters(alpha0, beta1, beta2, lbd) ==
    \/ ~RLess(One, lbd)                           \* lbd <= 1
    \/ ~RIsPos(alpha0)                            \* alpha0 <= 0
    \/ ~RIsPos(beta1) \/ ~RLess(beta1, One)       \* beta1 <= 0 or beta1 >= 1
    \/ ~RLess(beta2, One)                         \* beta2 >= 1
    \/ ~RLess(beta1, beta2)                       \* beta1 >= beta2

\* xnew = x + alpha * d
Xnew(x, alpha, d) == FAdd(x, FMul(alpha, d))

\* first Wolfe condition violated: fnew > f + alpha * beta1 * deriv
TooLong(obj, x, d, f, deriv, alpha, beta1) ==
    RLess(FAdd(f, FMul(FMul(alpha, beta1), deriv)),
          ObjValue(obj, Xnew(x, alpha, d)))

\* second Wolfe condition violated: np.inner(gnew, d) < beta2 * deriv
TooShort(obj, x, d, deriv, alpha, beta2) ==
    RLess(FMul(ObjGradient(obj, Xnew(x, alpha, d)), d), FMul(beta2, deriv))

\* (alphal + alphar) / 2.0
Midpoint(alphal, alphar) == FDiv(FAdd(alphal, alphar), FromInt(2))

\* lbd * alpha
Extended(alpha, lbd) == FMul(lbd, alpha)

\* the objectives, points, directions and parameters of the calls followed
Objectives == [c3 : {-1, 0}, c2 : {-1, 0, 1}, c1 : {-1, 0, 1, 2}]

Points == {Zero, One}

Directions == {FromInt(-1), One}

FirstSteps == {Zero, Rat(1, 4), One, FromInt(2)}

WolfeParameters == {Zero, Rat(1, 10), Rat(3, 10), Rat(7, 10), One}

ExtensionFactors == {One, FromInt(2), FromInt(4)}

\* ------------------------------------------------------------ state
VARIABLES
    T,          \* the caller's array
    pc,         \* "idle", "L156", "L157", "returned", "raised", "called"
    tableau,    \* simplexAlgorithmTableau's variable tableau
    colPivot,   \* \
    rowPivot,   \*  | simplexAlgorithmTableau's locals, set at line 156
    optimal,    \*  |
    bounded,    \* /
    ret,        \* what simplexAlgorithmTableau returned
    exc,        \* the exception that left simplexAlgorithmTableau
    call,       \* a direct call pivoting(T, p, q) and its outcome
    tableauIs,  \* the array object the driver's name tableau is bound to:
                \* "caller" (the array T) or "fresh" (made by pivoting)
    lsPc,       \* lineSearch: "new", "L95" (top of the loop), "returned",
                \* "raised"
    obj, x, d,  \* lineSearch's arguments obj, x, d
    beta1, beta2, lbd,      \* and beta1, beta2, lbd
    f, deriv,   \* lineSearch's locals f and deriv (lines 82-83)
    alpha,      \* the trial step
    alphal,     \* the lower bound
    alphar,     \* the upper bound
    finished,
    iters       \* the list iters

search == <<lsPc, obj, x, d, beta1, beta2, lbd, f, deriv, alpha, alphal, alphar,
            finished, iters>>

vars == <<T, pc, tableau, colPivot, rowPivot, optimal, bounded, ret, exc, call,
          tableauIs, search>>

\* lineSearch has not been called
NoSearch ==
    /\ lsPc = "new"
    /\ obj = None /\ x = None /\ d = None
    /\ beta1 = None /\ beta2 = None /\ lbd = None
    /\ f = None /\ deriv = None
    /\ alpha = None /\ alphal = None /\ alphar = None
    /\ finished = FALSE
    /\ iters = <<>>

locals == <<colPivot, rowPivot, optimal, bounded>>

Init ==
    /\ T \in Inputs
    /\ pc = "idle"
    /\ tableau = None
    /\ colPivot = None
    /\ rowPivot = None
    /\ optimal = FALSE
    /\ bounded = FALSE
    /\ ret = None
    /\ exc = "none"
    /\ call = None
    /\ tableauIs = "none"
    /\ NoSearch

\* mutant: newtableau = tableau, the rows are written into the argument
NewTableau_InPlace(argument) == argument

\* newtableau = np.empty(tableau.shape): the array object pivoting writes its
\* rows into and returns, given the object passed in
NewTableau(argument) == "fresh"

\* res = simplexAlgorithmTableau(T): the parameter tableau is bound to T itself
Enter ==
    /\ pc = "idle"
    /\ pc' = "L156"
    /\ tableau' = T
    /\ tableauIs' = "caller"
    /\ UNCHANGED <<T, locals, ret, exc, call, search>>

\* line 156: colPivot, rowPivot, optimal, bounded = simplexTableau(tableau)
Select ==
    /\ pc = "L156"
    /\ LET r == simplexTableau(tableau) IN
       IF r.exc # "none"
       THEN /\ pc' = "raised"
            /\ exc' = r.exc
            /\ UNCHANGED locals
       ELSE /\ pc' = "L157"
            /\ colPivot' = r.val.p
            /\ rowPivot' = r.val.q
            /\ optimal' = r.val.opt
            /\ bounded' = r.val.bounded
            /\ UNCHANGED exc
    /\ UNCHANGED <<T, tableau, ret, call, tableauIs, search>>

\* lines 157-158: return tableau, True, False
ReturnOptimal ==
    /\ pc = "L157"
    /\ optimal
    /\ pc' = "returned"
    /\ ret' = Some([tableau |-> tableau, optimal |-> TRUE, unbounded |-> FALSE,
                    tableauIs |-> tableauIs])
    /\ UNCHANGED <<T, tableau, locals, exc, call, tableauIs, search>>

\* lines 159-160: return tableau, False, True
ReturnUnbounded ==
    /\ pc = "L157"
    /\ ~optimal
    /\ ~bounded
    /\ pc' = "returned"
    /\ ret' = Some([tableau |-> tableau, optimal |-> FALSE, unbounded |-> TRUE,
                    tableauIs |-> tableauIs])
    /\ UNCHANGED <<T, tableau, locals, exc, call, tableauIs, search>>

\* line 161: tableau = pivoting(tableau, colPivot, rowPivot)
Pivot ==
    /\ pc = "L157"
    /\ ~optimal
    /\ bounded
    /\ LET r == pivoting(tableau, colPivot[1], rowPivot[1]) IN
       IF r.exc # "none"
       THEN /\ pc' = "raised"
            /\ exc' = r.exc
            /\ UNCHANGED <<T, tableau, tableauIs>>
       ELSE /\ pc' = "L156"
            /\ tableau' = r.val
            /\ tableauIs' = NewTableau(tableauIs)
            /\ T' = IF NewTableau(tableauIs) = "caller" THEN r.val ELSE T
            /\ UNCHANGED exc
    /\ UNCHANGED <<locals, ret, call, search>>

\* a caller's own pivoting(T, p, q)
CallPivoting(p, q) ==
    /\ pc = "idle"
    /\ pc' = "called"
    /\ LET out == pivoting(T, p, q) IN
       /\ call' = Some([p |-> p, q |-> q, out |-> out,
                        outIs |-> IF out.exc = "none"
                                  THEN NewTableau("caller") ELSE "none"])
       /\ T' = IF out.exc = "none" /\ NewTableau("caller") = "caller"
               THEN out.val ELSE T
    /\ UNCHANGED <<tableau, locals, ret, exc, tableauIs, search>>

Next ==
    \/ Enter
    \/ Select
    \/ ReturnOptimal
    \/ ReturnUnbounded
    \/ Pivot
    \/ \E p \in -NegIdx .. NCols(T), q \in -NegIdx .. NRows(T) : CallPivoting(p, q)

Spec == Init /\ [][Next]_vars

\* ------------------------------------------------------------ properties
\* shape of a tableau in the terms of the data model: m constraint rows,
\* n variable columns
ConstraintRows(t) == 0 .. NRows(t) - 2

VariableCols(t) == 0 .. NCols(t) - 2

\* the driver has been entered and holds a tableau
InDriver == pc \in {"L156", "L157", "returned", "raised"}

HasReturned == pc = "returned"

ReturnedOptimal == HasReturned /\ ret[1].optimal /\ ~ret[1].unbounded

ReturnedUnbounded == HasReturned /\ ~ret[1].optimal /\ ret[1].unbounded

\* column j has a strictly negative reduced cost and no positive entry in a
\* constraint row
UnboundedColumn(t, j) ==
    /\ RIsNeg(At(t, NRows(t) - 1, j))
    /\ \A i \in ConstraintRows(t) : ~RIsPos(At(t, i, j))

\* C1: whenever simplexAlgorithmTableau returns Optimal (optimal = True,
\* unbounded = False), every entry of the last row of the returned tableau,
\* the RHS column excluded, is >= 0.
C1_OptimalityCertificate ==
    ReturnedOptimal =>
        \A j \in VariableCols(ret[1].tableau) :
            ~RIsNeg(At(ret[1].tableau, NRows(ret[1].tableau) - 1, j))

\* an Optimal return after at least one pivot of a tableau with a constraint
\* row and two variable columns
C1_Witness ==
    /\ ReturnedOptimal
    /\ ret[1].tableau # T
    /\ NRows(T) >= 2
    /\ NCols(T) >= 3

\* C2: whenever simplexAlgorithmTableau returns Unbounded (optimal = False,
\* unbounded = True), the returned tableau has a strictly negative reduced
\* cost in a column whose constraint-row entries are all <= 0, and
\* simplexTableau applied to it again reports Unbounded.
C2_UnboundednessCertificate ==
    ReturnedUnbounded =>
        /\ \E j \in VariableCols(ret[1].tableau) :
               UnboundedColumn(ret[1].tableau, j)
        /\ simplexTableau(ret[1].tableau) =
               Returned([p |-> None, q |-> None, opt |-> FALSE, bounded |-> FALSE])

\* an Unbounded return after at least one pivot
C2_Witness ==
    /\ ReturnedUnbounded
    /\ ret[1].tableau # T
    /\ NRows(T) >= 3

\* a direct call pivoting(T, p, q) has been made
Called == call # None

\* the call returned a tableau (the position was accepted)
CallReturned == Called /\ call[1].out.exc = "none"

\* the call failed with the Exception pivoting raises, returning nothing
CallRejected == Called /\ call[1].out = Raised("Exception")

\* C3: for every tableau and every accepted pivot position (column p, row q)
\* the tableau returned by pivoting has column p equal to the unit vector
\* e_q: 1 in row q and 0 in every other row, the objective row included.
C3_PivotPostcondition ==
    CallReturned =>
        \A i \in 0 .. NRows(T) - 1 :
            At(call[1].out.val, i, call[1].p) =
                IF i = Wrap(call[1].q, NRows(T)) THEN One ELSE Zero

\* the same, for the positions 0 <= q < tableau.shape[0] only
C3_PostconditionNonNegativeRow ==
    (CallReturned /\ call[1].q >= 0) =>
        \A i \in 0 .. NRows(T) - 1 :
            At(call[1].out.val, i, call[1].p) =
                IF i = call[1].q THEN One ELSE Zero

\* the RHS entries of the constraint rows are >= 0
RhsNonNegative(t) == \A i \in ConstraintRows(t) : ~RIsNeg(At(t, i, NCols(t) - 1))

\* C4: if every RHS entry of the constraint rows of the initial tableau is
\* >= 0, then so is every RHS entry of the constraint rows of every
\* intermediate and final tableau of simplexAlgorithmTableau.
C4_RhsNonNegativityPreserved ==
    (InDriver /\ RhsNonNegative(T)) =>
        /\ RhsNonNegative(tableau)
        /\ HasReturned => RhsNonNegative(ret[1].tableau)

\* a feasible start with two constraint rows, pivoted at least once, where a
\* row other than the pivot row had a positive entry in the entering column
C4_Witness ==
    /\ pc = "L156"
    /\ RhsNonNegative(T)
    /\ NRows(T) >= 3
    /\ tableau # T
    /\ colPivot # None
    /\ \E i \in ConstraintRows(T) :
           i # rowPivot[1] /\ RIsPos(At(T, i, colPivot[1]))

\* the reduced cost of column j of the driver's tableau
Cost(j) == At(tableau, NRows(tableau) - 1, j)

\* the constraint rows with a positive entry in column p
PositiveRows(p) == { i \in ConstraintRows(tableau) : RIsPos(At(tableau, i, p)) }

\* row i's ratio is strictly below row k's: b_i / a_ip < b_k / a_kp, for
\* positive a_ip, a_kp
RatioLess(i, k, p) ==
    RLess(RMul(At(tableau, i, NCols(tableau) - 1), At(tableau, k, p)),
          RMul(At(tableau, k, NCols(tableau) - 1), At(tableau, i, p)))

\* simplexTableau has just been applied to the driver's tableau
Selected == pc = "L157" \/ (pc = "raised" /\ exc = "ValueError")

\* C5: simplexTableau returns Optimal exactly when no entry of the last row,
\* the RHS column excluded, is strictly negative; otherwise the entering
\* column is the smallest column index with a strictly negative reduced cost.
C5_EnteringColumn ==
    Selected =>
        /\ (pc = "L157" /\ optimal) <=> (\A j \in VariableCols(tableau) : ~RIsNeg(Cost(j)))
        /\ (pc = "L157" /\ colPivot # None) =>
               /\ colPivot[1] \in VariableCols(tableau)
               /\ RIsNeg(Cost(colPivot[1]))
               /\ \A j \in 0 .. colPivot[1] - 1 : ~RIsNeg(Cost(j))

\* the first negative reduced cost is chosen although a later one is more
\* negative
C5_Witness ==
    /\ pc = "L157"
    /\ colPivot # None
    /\ \E j \in VariableCols(tableau) : RLess(Cost(j), Cost(colPivot[1]))

\* C6: on a tableau with at least one constraint row and a negative reduced
\* cost, with p the first such column: simplexTableau returns Unbounded if
\* no constraint row has a positive entry in column p; otherwise it returns
\* Pivot(p, q) with q a constraint row, tableau[q][p] > 0, q of minimum ratio
\* tableau[i][n] / tableau[i][p] among the rows with tableau[i][p] > 0, and q
\* the smallest such row.
C6_LeavingRow ==
    (pc = "L157" /\ ~optimal) =>
        LET p == CHOOSE j \in VariableCols(tableau) :
                     RIsNeg(Cost(j)) /\ \A k \in 0 .. j - 1 : ~RIsNeg(Cost(k))
        IN  IF PositiveRows(p) = {}
            THEN ~bounded /\ colPivot = None /\ rowPivot = None
            ELSE /\ bounded
                 /\ colPivot = Some(p)
                 /\ rowPivot # None
                 /\ rowPivot[1] \in PositiveRows(p)
                 /\ \A i \in PositiveRows(p) : ~RatioLess(i, rowPivot[1], p)
                 /\ \A i \in PositiveRows(p) :
                        i < rowPivot[1] => RatioLess(rowPivot[1], i, p)

\* two rows tie for the minimum ratio, a third row with a positive entry has a
\* larger one, and the first of the tied rows leaves
C6_Witness ==
    /\ pc = "L157"
    /\ rowPivot # None
    /\ \E i \in PositiveRows(colPivot[1]) :
           /\ i > rowPivot[1]
           /\ ~RatioLess(rowPivot[1], i, colPivot[1])
    /\ \E i \in PositiveRows(colPivot[1]) :
           RatioLess(rowPivot[1], i, colPivot[1])

\* simplexAlgorithmTableau has ended, by a return or by an exception
Ended == pc \in {"returned", "raised"}

\* C7: simplexAlgorithmTableau started on the tableau of Exercise 1 ends with
\* status Optimal, and the bottom-right entry (row 3, last column) of the
\* returned tableau is 136.
C7_ReferenceRun ==
    (T = Exercise1 /\ Ended) =>
        /\ ReturnedOptimal
        /\ At(ret[1].tableau, 3, 6) = FromInt(136)

\* the run on Exercise 1 has returned, with the printed optimal tableau's
\* objective row
C7_Witness ==
    /\ T = Exercise1
    /\ HasReturned
    /\ RowAt(ret[1].tableau, 3) =
           << Zero, Zero, Zero, Rat(18, 5), Rat(8, 5), Rat(8, 5), FromInt(136) >>

\* C8: a call to pivoting with row outside [0, m) or column outside [0, n),
\* m constraint rows and n variable columns (row = m, column = n and negative
\* indices included), fails with the InvalidPivot error and returns no
\* tableau.
C8_PivotRangePrecondition ==
    (Called /\ (call[1].q \notin ConstraintRows(T) \/ call[1].p \notin VariableCols(T)))
        => CallRejected

\* C9: a call to pivoting at a position whose pivot element tableau[row][column]
\* is zero fails with the InvalidPivot error; no tableau is returned.
C9_ZeroPivotRejected ==
    (/\ Called
     /\ InBounds(call[1].q, NRows(T)) /\ ~RowTooLarge(T, call[1].q)
     /\ InBounds(call[1].p, NCols(T)) /\ ~ColTooLarge(T, call[1].p)
     /\ At(T, call[1].q, call[1].p) = Zero)
        => CallRejected

\* a rejected call at a constraint row and a variable column holding 0, in a
\* tableau whose other entries of that row and column are not all 0
C9_Witness ==
    /\ CallRejected
    /\ call[1].q \in ConstraintRows(T)
    /\ call[1].p \in VariableCols(T)
    /\ At(T, call[1].q, call[1].p) = Zero
    /\ \E j \in VariableCols(T) : At(T, call[1].q, j) # Zero
    /\ \E i \in ConstraintRows(T) : At(T, i, call[1].p) # Zero

\* fewer than 2 rows or fewer than 2 columns
Malformed(t) == NRows(t) < 2 \/ NCols(t) < 2

\* C10: a tableau with fewer than 2 rows or fewer than 2 columns is rejected
\* with an error by runSimplex before any reduced-cost test, ratio
\* computation or pivot: the driver never gets past its first call of
\* simplexTableau and never returns a status for it.
C10_MalformedRejected ==
    (Malformed(T) /\ InDriver) => pc \in {"L156", "raised"}

\* a direct call of pivoting, or the driver's call at line 161, returns
PivotingReturns ==
    \/ pc = "idle" /\ pc' = "called" /\ call'[1].out.exc = "none"
    \/ pc = "L157" /\ pc' = "L156"

NoArrayInit ==
    /\ T = None
    /\ pc = "new"
    /\ tableau = None
    /\ colPivot = None
    /\ rowPivot = None
    /\ optimal = FALSE
    /\ bounded = FALSE
    /\ ret = None
    /\ exc = "none"
    /\ call = None
    /\ tableauIs = "none"
    /\ NoSearch

\* T = np.array(...), with RHS >= 0 in the constraint rows
BuildFeasible ==
    /\ pc = "new"
    /\ T' \in { t \in Inputs : RhsNonNegative(t) }
    /\ pc' = "idle"
    /\ UNCHANGED <<tableau, locals, ret, exc, call, tableauIs, search>>

DriverNext ==
    \/ BuildFeasible
    \/ Enter
    \/ Select
    \/ ReturnOptimal
    \/ ReturnUnbounded
    \/ Pivot

\* control leaves the statement it is at. Every step of DriverNext is such a
\* step, and one is possible at every statement: line 156 returns or raises,
\* and lines 157-161 cover the three outcomes of line 156.
ControlMoves ==
    /\ pc \in {"new", "idle", "L156", "L157"}
    /\ pc' \in {"idle", "L156", "L157", "returned", "raised"}
    /\ pc' # pc

\* the interpreter runs the next statement: the call goes on until it returns
\* or raises
FeasibleRunSpec == NoArrayInit /\ [][DriverNext]_vars /\ WF_pc(ControlMoves)

\* no statement is left to run: the driver returned or raised
Terminal == pc \in {"returned", "raised"}

\* the driver is about to pivot on a row whose RHS entry, hence whose minimum
\* ratio, is 0
DegeneratePivotPending ==
    /\ pc = "L157"
    /\ rowPivot # None
    /\ At(tableau, rowPivot[1], NCols(tableau) - 1) = Zero

\* every step of the driver moves control, so WF_pc(ControlMoves) is weak
\* fairness of DriverNext
DriverStepMovesControl == [][ControlMoves]_vars

\* at every statement of the driver a step is possible
DriverNeverStuck ==
    /\ pc = "L156" => simplexTableau(tableau).exc \in {"none", "ValueError"}
    /\ pc = "L157" => optimal \/ ~bounded \/ (colPivot # None /\ rowPivot # None)

\* C12: started on a tableau whose constraint-row RHS entries are all >= 0
\* (degenerate ones included), simplexAlgorithmTableau eventually reaches a
\* terminal state; there is no infinite sequence of pivots.
C12_Termination == <>Terminal

\* C12 as amended: such a run reaches a terminal state unless it makes
\* degenerate (zero-ratio) pivots again and again.
C12_TerminationUnlessDegenerate == []<>(Terminal \/ DegeneratePivotPending)

\* a run from a tableau with RHS >= 0 has returned after a degenerate pivot
\* and a pivot of positive ratio
C12_Witness ==
    /\ HasReturned
    /\ RhsNonNegative(T)
    /\ \E i \in ConstraintRows(T) : At(T, i, NCols(T) - 1) = Zero
    /\ At(ret[1].tableau, NRows(T) - 1, NCols(T) - 1)
           # At(T, NRows(T) - 1, NCols(T) - 1)
    /\ NRows(T) >= 3

\* ------------------------------------------------------------ C13
\* line 161, for one content of the new array and one order of the loop
PivotWith(junk, order) ==
    /\ pc = "L157"
    /\ ~optimal
    /\ bounded
    /\ LET r == pivotingInOrder(tableau, colPivot[1], rowPivot[1], junk, order) IN
       IF r.exc # "none"
       THEN /\ pc' = "raised"
            /\ exc' = r.exc
            /\ UNCHANGED <<T, tableau, tableauIs>>
       ELSE /\ pc' = "L156"
            /\ tableau' = r.val
            /\ tableauIs' = NewTableau(tableauIs)
            /\ T' = IF NewTableau(tableauIs) = "caller" THEN r.val ELSE T
            /\ UNCHANGED exc
    /\ UNCHANGED <<locals, ret, call, search>>

\* line 161, whatever the new array held and whatever the order of the loop
PivotInSomeOrder ==
    /\ pc = "L157"
    /\ ~optimal
    /\ bounded
    /\ \E junk \in Uninitialised,
          order \in IterationOrders(LoopRows(tableau, rowPivot[1])) :
       PivotWith(junk, order)

AnyOrderNext ==
    \/ Enter
    \/ Select
    \/ ReturnOptimal
    \/ ReturnUnbounded
    \/ PivotInSomeOrder

\* the runs of simplexAlgorithmTableau, a run being free in what np.empty
\* leaves and in the order of the loop of line 127
AnyOrderSpec == Init /\ [][AnyOrderNext]_vars

\* state Running: the driver is at a statement of its loop
Running == pc \in {"L156", "L157"}

\* how many of the driver's statements the step is a step of
DriverStepsTaken ==
    Cardinality({ k \in 1 .. 5 :
        \/ k = 1 /\ Enter
        \/ k = 2 /\ Select
        \/ k = 3 /\ ReturnOptimal
        \/ k = 4 /\ ReturnUnbounded
        \/ k = 5 /\ PivotInSomeOrder })

\* the step is the pivot for every content of the new array and every order
\* of the loop
PivotIsTheOnlyOutcome ==
    \A junk \in Uninitialised,
       order \in IterationOrders(LoopRows(tableau, rowPivot[1])) :
        PivotWith(junk, order)

\* C13: determinism. Every Running state has exactly one successor: a step of
\* the driver is a step of one statement only, and a pivot gives the same
\* tableau (the one Pivot computes row by row) whatever the new array held
\* and in whatever order the rows are visited; so two runs from the same
\* tableau make the same pivots, pass through the same tableaux and return
\* the same result.
C13_Determinism ==
    [][Running =>
          /\ DriverStepsTaken = 1
          /\ PivotInSomeOrder => (PivotIsTheOnlyOutcome /\ Pivot)]_vars

\* a run of several pivots on a tableau of five rows (24 orders of the loop)
\* has returned Optimal
C13_Witness ==
    /\ HasReturned
    /\ ret[1].optimal
    /\ ret[1].tableauIs = "fresh"
    /\ NRows(T) >= 5

\* ------------------------------------------------------------ C14
\* tableau[m][n], the bottom-right entry: minus the objective value
BottomRight(t) == At(t, NRows(t) - 1, NCols(t) - 1)

\* the step is a pivot of the driver, line 161
DriverPivots == pc = "L157" /\ pc' = "L156"

\* the minimum ratio of the pivot chosen at line 156: xb[q] / minusd[q]
MinimumRatio ==
    RDiv(At(tableau, rowPivot[1], NCols(tableau) - 1),
         At(tableau, rowPivot[1], colPivot[1]))

\* C14: when the constraint-row RHS entries of the initial tableau are all
\* >= 0, the bottom-right entry never decreases from one pivot of
\* simplexAlgorithmTableau to the next and strictly increases at every pivot
\* whose minimum ratio is > 0, so it is then above its initial value and the
\* initial tableau cannot come back; only a pivot of ratio 0 leaves it as
\* it is.
C14_ObjectiveMonotone ==
    [][(DriverPivots /\ RhsNonNegative(T)) =>
          /\ ~RLess(BottomRight(tableau'), BottomRight(tableau))
          /\ ~RLess(BottomRight(tableau), BottomRight(T))
          /\ RIsPos(MinimumRatio) =>
                 /\ RLess(BottomRight(tableau), BottomRight(tableau'))
                 /\ tableau' # T
          /\ MinimumRatio = Zero => BottomRight(tableau') = BottomRight(tableau)]_vars

\* a run from a tableau with RHS >= 0 made a pivot of ratio 0, then is about
\* to make one of ratio > 0, after an earlier pivot raised the entry
C14_Witness ==
    /\ pc = "L157"
    /\ rowPivot # None
    /\ RhsNonNegative(T)
    /\ RIsPos(MinimumRatio)
    /\ RLess(BottomRight(T), BottomRight(tableau))
    /\ \E i \in ConstraintRows(tableau) : At(tableau, i, NCols(tableau) - 1) = Zero
    /\ NRows(T) >= 3

\* ------------------------------------------------------------ C15
simplex == <<T, pc, tableau, colPivot, rowPivot, optimal, bounded, ret, exc,
             call, tableauIs>>

\* lineSearch(obj, x, d, alpha0, beta1, beta2, lbd), lines 71-94: the checks,
\* f, g = obj(x), deriv, and the initial step and bounds
EnterSearch ==
    /\ lsPc = "new"
    /\ \E o \in Objectives, x0 \in Points, d0 \in Directions,
          alpha0 \in FirstSteps, b1 \in WolfeParameters,
          b2 \in WolfeParameters, l \in ExtensionFactors :
        /\ obj' = o /\ x' = x0 /\ d' = d0
        /\ beta1' = b1 /\ beta2' = b2 /\ lbd' = l
        /\ IF BadParameters(alpha0, b1, b2, l)
           THEN /\ lsPc' = "raised"
                /\ UNCHANGED <<f, deriv, alpha, alphal, alphar>>
           ELSE /\ f' = ObjValue(o, x0)
                /\ deriv' = FMul(ObjGradient(o, x0), d0)
                /\ IF ~RLess(deriv', Zero)              \* deriv >= 0
                   THEN /\ lsPc' = "raised"
                        /\ UNCHANGED <<alpha, alphal, alphar>>
                   ELSE /\ lsPc' = "L95"
                        /\ alpha' = alpha0
                        /\ alphal' = Zero
                        /\ alphar' = LargestFloat
    /\ UNCHANGED <<finished, iters, simplex>>

\* one more iteration of the loop is followed
AtLoopTop == lsPc = "L95" /\ ~finished /\ Len(iters) < MaxIters

\* iters.append([alpha, alphal, alphar, reason])
Appended(step, lower, upper, reason) ==
    Append(iters, [alpha |-> step, alphal |-> lower, alphar |-> upper,
                   reason |-> reason])

\* lines 99-102: "too long"
IterateTooLong ==
    /\ AtLoopTop
    /\ TooLong(obj, x, d, f, deriv, alpha, beta1)
    /\ alphar' = alpha
    /\ alpha' = Midpoint(alphal, alphar')
    /\ iters' = Appended(alpha', alphal, alphar', "too long")
    /\ UNCHANGED <<lsPc, obj, x, d, beta1, beta2, lbd, f, deriv, alphal,
                   finished, simplex>>

\* lines 104-110: "too short"
IterateTooShort ==
    /\ AtLoopTop
    /\ ~TooLong(obj, x, d, f, deriv, alpha, beta1)
    /\ TooShort(obj, x, d, deriv, alpha, beta2)
    /\ alphal' = alpha
    /\ alpha' = IF alphar = LargestFloat
                THEN Extended(alpha, lbd)
                ELSE Midpoint(alphal', alphar)
    /\ iters' = Appended(alpha', alphal', alphar, "too short")
    /\ UNCHANGED <<lsPc, obj, x, d, beta1, beta2, lbd, f, deriv, alphar,
                   finished, simplex>>

\* lines 111-115: "ok", the loop ends and alpha, iters are returned
IterateOk ==
    /\ AtLoopTop
    /\ ~TooLong(obj, x, d, f, deriv, alpha, beta1)
    /\ ~TooShort(obj, x, d, deriv, alpha, beta2)
    /\ finished' = TRUE
    /\ iters' = Appended(alpha, alphal, alphar, "ok")
    /\ lsPc' = "returned"
    /\ UNCHANGED <<obj, x, d, beta1, beta2, lbd, f, deriv, alpha, alphal,
                   alphar, simplex>>

LineSearchNext ==
    \/ EnterSearch
    \/ IterateTooLong
    \/ IterateTooShort
    \/ IterateOk

\* the calls of lineSearch
LineSearchSpec == NoArrayInit /\ [][LineSearchNext]_vars

\* 0 <= alphal < alpha < alphar
BracketHolds ==
    /\ ~RLess(alphal, Zero)
    /\ RLess(alphal, alpha)
    /\ RLess(alpha, alphar)

\* across an iteration alphal does not decrease and alphar does not increase
BoundsMonotone == ~RLess(alphal', alphal) /\ ~RLess(alphar, alphar')

\* the loop ends only on a step that violates neither Wolfe condition, and
\* that step is returned
ExitsOnAcceptedStep ==
    lsPc' = "returned" =>
        /\ ~TooLong(obj, x, d, f, deriv, alpha, beta1)
        /\ ~TooShort(obj, x, d, deriv, alpha, beta2)
        /\ alpha' = alpha
        /\ iters'[Len(iters')].alpha = alpha

\* C15: for valid parameters, at the start of every iteration of the
\* lineSearch loop 0 <= alphal < alpha < alphar; across iterations alphal
\* never decreases and alphar never increases; and the loop exits, returning
\* alpha, only in an iteration where alpha violates neither Wolfe condition.
C15_BracketInvariant ==
    /\ [](lsPc = "L95" => BracketHolds)
    /\ [][lsPc = "L95" => (BoundsMonotone /\ ExitsOnAcceptedStep)]_vars

\* the part of C15 that holds: the bounds move one way only and the exit is
\* on an accepted step
C15_BoundsMonotoneAndExit ==
    [][lsPc = "L95" => (BoundsMonotone /\ ExitsOnAcceptedStep)]_vars

\* the bracket holds at the start of every iteration whose trial step is a
\* finite float
C15_BracketWhileFinite ==
    (lsPc = "L95" /\ alpha.den # 0) => BracketHolds

\* a search found its step too long, then, between two bounds, too short,
\* and returned an accepted step
C15_Returned ==
    /\ lsPc = "returned"
    /\ \E k \in 1 .. Len(iters) - 1 :
           /\ iters[k].reason = "too long"
           /\ iters[k + 1].reason = "too short"

=============================================================================
